---- MODULE Spec2Model ----
(***************************************************************************)
(* The sync queue of src/src/sync/SyncQueue.js: it listens to database     *)
(* change events, queues one 'SyncOut' record per changed record, hands    *)
(* the oldest records to the sync client (next) and removes the ones the   *)
(* client has used (use).                                                  *)
(*                                                                         *)
(* The database object the queue is constructed with (listeners, objects,  *)
(* create, delete, write) is not part of the sources; it is modelled from  *)
(* the interface the specification gives for it (section 6): a single      *)
(* writer store whose write() runs its callback in one transaction that    *)
(* is committed when the callback returns and rolled back when it throws,  *)
(* and that calls every registered listener synchronously, once per        *)
(* changed record, inside that transaction.                                *)
(***************************************************************************)
EXTENDS Integers, Sequences, FiniteSets

(***************************************************************************)
(* Bounds of the model.                                                    *)
(***************************************************************************)
\* 'SyncOut' records that exist or are still referenced by the sync client.
MaxEntries == 2
\* enable() calls over a whole run (each registers one more listener).
MaxListeners == 2
\* The wall clock takes the values 0..MaxTime.
MaxTime == 1
\* Longest array of records handed to use().
MaxBatch == 2

(***************************************************************************)
(* Constants of the program.                                               *)
(***************************************************************************)
\* CHANGE_TYPES of the database module.
CREATE == "create"
UPDATE == "update"
DELETE == "delete"
WIPE == "wipe"

CHANGE_TYPES == {CREATE, UPDATE, DELETE, WIPE}

recordTypesSynced ==
  << "ItemLine", "Requisition", "RequisitionLine", "Stocktake",
     "StocktakeLine", "Transaction", "TransactionLine" >>

\* A record type of the schema that is not synced.
Setting == "Setting"

\* The id of a record that has none (record.id is undefined).
NoId == "<undefined>"

(***************************************************************************)
(* Inputs the environment draws from.                                      *)
(***************************************************************************)
\* A change of a record: what the database calls its listeners with.
Event(changeType, recordType, recordId) ==
  [changeType |-> changeType, recordType |-> recordType,
   record |-> [id |-> recordId]]

\* Changes the queue has to queue: every supported change of a record of the
\* first record type of recordTypesSynced, and the creation of a record of the
\* last one.
SyncedEvents ==
  {Event(changeType, "ItemLine", "t1") : changeType \in {CREATE, UPDATE, DELETE}}
    \cup {Event(CREATE, "TransactionLine", "t1")}

\* Changes the queue has to ignore: of a record type that is not synced, a wipe
\* of the database, and changes of records with an empty id and with no id.
OtherEvents ==
  { Event(CREATE, Setting, "t1"), Event(WIPE, "ItemLine", "t1"),
    Event(UPDATE, "ItemLine", ""), Event(DELETE, "TransactionLine", NoId) }

\* The changes the application makes.
Events == SyncedEvents \cup OtherEvents

\* The listener id of a queue that was never enabled (null).
NoListener == 0

\* Arguments of next(): none, or one integer.
NextArgs == {<< >>} \cup {<<n>> : n \in (-1)..(MaxEntries + 1)}

\* Store operations that can fail in a call; "none": all succeed.
Failures == {"none", "objects", "create"}

VARIABLES
  SyncOut,             \* the committed 'SyncOut' records of the database
  inTransaction,       \* a database.write() callback is running
  txSyncOut,           \* the 'SyncOut' records as seen inside the transaction
  txCaptured,          \* (changeType, recordType, recordId) of the changes of
                       \* the running transaction that a listener was called
                       \* for and that the queue does not filter out
  listeners,           \* ids of the callbacks registered with the database
  nextListenerId,      \* the id the next addListener() returns
  databaseListenerId,  \* this.databaseListenerId
  now,                 \* new Date().getTime()
  batch,               \* the array the last next() returned to the sync client
  last                 \* the last call: its name, arguments and outcome

vars == << SyncOut, inTransaction, txSyncOut, txCaptured, listeners,
           nextListenerId, databaseListenerId, now, batch, last >>

(***************************************************************************)
(* Helpers.                                                                *)
(***************************************************************************)
Range(s) == {s[i] : i \in 1..Len(s)}

Min(a, b) == IF a < b THEN a ELSE b

Max(a, b) == IF a > b THEN a ELSE b

Ids(records) == {r.id : r \in records}

\* What a call leaves in `last`: its name, its arguments, whether it threw,
\* and the 'SyncOut' records it found (for a change: the records the listeners
\* were called on; for use(): the committed records).
Call(op, args, threw, before) ==
  [op |-> op, args |-> args, threw |-> threw, before |-> before]

(***************************************************************************)
(* JavaScript.                                                             *)
(***************************************************************************)
\* Array.prototype.indexOf
indexOf(array, x) ==
  IF \E i \in 1..Len(array) : array[i] = x
    THEN (CHOOSE i \in 1..Len(array) :
            array[i] = x /\ \A j \in 1..(i - 1) : array[j] # x) - 1
    ELSE -1

\* (A slip: value === undefined, which the empty string passes.)
NotUndefinedOnly(value) == value = NoId

\* !value, for the values an id takes
Not(value) == value \in {NoId, ""}

\* Array.prototype.slice(begin, end)
slice(array, begin, end) ==
  LET k == Len(array)
      from == IF begin < 0 THEN Max(k + begin, 0) ELSE Min(begin, k)
      to == IF end < 0 THEN Max(k + end, 0) ELSE Min(end, k)
  IN  IF from < to THEN SubSeq(array, from + 1, to) ELSE << >>

(***************************************************************************)
(* The database, as far as the queue uses it.                              *)
(***************************************************************************)
\* generateUUID(): an id no record in use carries (the smallest such number).
generateUUID(used) ==
  LET free == (1..(Cardinality(used) + 1)) \ used
  IN  CHOOSE id \in free : \A other \in free : id <= other

\* A record object the database hands out refers to the stored record: it is
\* modelled by the id of the record, and is valid while the record is stored.
isValid(objects, record) == \E o \in objects : o.id = record

\* The record objects of an array of stored records.
Refs(array) ==
  IF Len(array) = 0 THEN << >> ELSE [i \in 1..Len(array) |-> array[i].id]

\* The stored record a valid record object refers to.
Stored(objects, record) == CHOOSE o \in objects : o.id = record

\* database.objects('SyncOut').filtered(
\*   'changeType == $0 && recordType == $1 && recordId == $2', ...)
filtered(objects, changeType, recordType, recordId) ==
  {o \in objects : /\ o.changeType = changeType
                   /\ o.recordType = recordType
                   /\ o.recordId = recordId}

\* database.objects('SyncOut').sorted('changeTime'): the records in ascending
\* changeTime; the order of records with the same changeTime is not defined,
\* so every such order is a possible result.
sorted(objects) ==
  {all \in [1..Cardinality(objects) -> objects] :
     /\ \A i, j \in 1..Cardinality(objects) : i # j => all[i] # all[j]
     /\ \A i, j \in 1..Cardinality(objects) :
          i < j => all[i].changeTime <= all[j].changeTime}

\* database.write(callback): what the callback did is committed when it
\* returns and rolled back when it throws, and the error is thrown on.
write(objects, callback) ==
  IF callback.threw THEN [objects |-> objects, threw |-> TRUE] ELSE callback

(***************************************************************************)
(* SyncQueue.onDatabaseEvent(changeType, recordType, record)               *)
(***************************************************************************)
\* (A slip: the index of a missing element, -1, passes the test.)
isSyncedFromMinusOne(recordType) == indexOf(recordTypesSynced, recordType) >= -1

\* recordTypesSynced.indexOf(recordType) >= 0
isSynced(recordType) == indexOf(recordTypesSynced, recordType) >= 0

\* case CREATE: case UPDATE: case DELETE:
isSupported(changeType) == changeType \in {CREATE, UPDATE, DELETE}

\* (A slip: the query leaves out the change type.)
duplicateOfAnyChange(objects, changeType, recordType, recordId) ==
  Cardinality({o \in objects : /\ o.recordType = recordType
                               /\ o.recordId = recordId}) > 0

\* (A slip: one matching record does not count as a duplicate.)
duplicateMoreThanOne(objects, changeType, recordType, recordId) ==
  Cardinality(filtered(objects, changeType, recordType, recordId)) > 1

\* const duplicate = ....filtered(...).length > 0
duplicate(objects, changeType, recordType, recordId) ==
  Cardinality(filtered(objects, changeType, recordType, recordId)) > 0

\* (A slip: the time is negated, as for a newest-first order.)
newSyncOutNewestFirst(id, time, changeType, recordType, recordId) ==
  [id |-> id, changeTime |-> 0 - time, changeType |-> changeType,
   recordType |-> recordType, recordId |-> recordId]

\* The record database.create('SyncOut', {...}) is called with.
newSyncOut(id, time, changeType, recordType, recordId) ==
  [id |-> id, changeTime |-> time, changeType |-> changeType,
   recordType |-> recordType, recordId |-> recordId]

\* (A slip: a duplicate is given the time of the new change.)
onDatabaseEventRefreshing(objects, changeType, recordType, record, time, used, failure) ==
  LET skip == [objects |-> objects, threw |-> FALSE]
      throw == [objects |-> objects, threw |-> TRUE]
      same == filtered(objects, changeType, recordType, record.id)
  IN  IF indexOf(recordTypesSynced, recordType) >= 0
           /\ changeType \in {CREATE, UPDATE, DELETE}
           /\ record.id \notin {NoId, ""}
        THEN IF failure = "objects" THEN throw
             ELSE IF same # {}
               THEN [objects |-> (objects \ same) \cup
                       {[o EXCEPT !.changeTime = time] : o \in same},
                     threw |-> FALSE]
             ELSE IF failure = "create" THEN throw
             ELSE [objects |-> objects \cup
                     {[id |-> generateUUID(used), changeTime |-> time,
                       changeType |-> changeType, recordType |-> recordType,
                       recordId |-> record.id]},
                   threw |-> FALSE]
        ELSE skip

\* (A slip: an error of database.create() is caught and dropped.)
onDatabaseEventCatching(objects, changeType, recordType, record, time, used, failure) ==
  LET skip == [objects |-> objects, threw |-> FALSE]
      throw == [objects |-> objects, threw |-> TRUE]
  IN  IF indexOf(recordTypesSynced, recordType) >= 0
           /\ changeType \in {CREATE, UPDATE, DELETE}
           /\ record.id \notin {NoId, ""}
        THEN IF failure = "objects" THEN throw
             ELSE IF failure = "create" THEN skip
             ELSE IF filtered(objects, changeType, recordType, record.id) # {}
               THEN skip
             ELSE [objects |-> objects \cup
                     {[id |-> generateUUID(used), changeTime |-> time,
                       changeType |-> changeType, recordType |-> recordType,
                       recordId |-> record.id]},
                   threw |-> FALSE]
        ELSE skip

\* The handler on the records `objects`, at wall-clock `time`, with `used` the
\* ids generateUUID() must avoid and `failure` the store operation that throws
\* when called: the records it leaves, and whether it threw.
onDatabaseEvent(objects, changeType, recordType, record, time, used, failure) ==
  LET skip == [objects |-> objects, threw |-> FALSE]
      throw == [objects |-> objects, threw |-> TRUE]
  IN  IF isSynced(recordType)
        THEN IF isSupported(changeType)
               THEN IF Not(record.id) THEN skip
                    ELSE IF failure = "objects" THEN throw
                    ELSE IF ~duplicate(objects, changeType, recordType, record.id)
                           THEN IF failure = "create" THEN throw
                                ELSE [objects |-> objects \cup
                                        {newSyncOut(generateUUID(used), time,
                                                    changeType, recordType,
                                                    record.id)},
                                      threw |-> FALSE]
                           ELSE skip
               ELSE skip
        ELSE skip

\* The event is one the handler does not queue: its record type is not synced,
\* its change type is not supported, or its record has no id.
FilteredOut(e) ==
  \/ ~isSynced(e.recordType)
  \/ ~isSupported(e.changeType)
  \/ Not(e.record.id)

Triple(e) == << e.changeType, e.recordType, e.record.id >>

\* The database calling its listeners with a change, one after the other;
\* `calls` are left to make. Every listener is this.onDatabaseEvent. The
\* first error ends the calls.
RECURSIVE alertListeners(_, _, _, _, _, _)
alertListeners(objects, calls, e, time, used, failure) ==
  IF calls = 0 THEN [objects |-> objects, threw |-> FALSE]
  ELSE LET r == onDatabaseEvent(objects, e.changeType, e.recordType, e.record,
                                time, used \cup Ids(objects), failure)
       IN  IF r.threw THEN r
           ELSE alertListeners(r.objects, calls - 1, e, time, used, failure)

(***************************************************************************)
(* SyncQueue.length(), next(numberOfRecords), use(records)                 *)
(***************************************************************************)
\* (A slip: the last index is taken for the length.)
lengthLessOne(objects) == Cardinality(objects) - 1

\* this.database.objects('SyncOut').length
length(objects) == Cardinality(objects)

\* numberOfRecords || 1
numberToReturn(args) ==
  IF args = << >> \/ args[1] = 0 THEN 1 ELSE args[1]

\* (A slip: .sorted('changeTime') is left out, the records come in any order.)
nextUnsorted(objects, args) ==
  {slice(allRecords, 0, numberToReturn(args)) :
     allRecords \in {all \in [1..Cardinality(objects) -> objects] :
                       \A i, j \in 1..Cardinality(objects) :
                         i # j => all[i] # all[j]}}

\* (A slip: the slice starts at index 1.)
nextFromOne(objects, args) ==
  {slice(allRecords, 1, numberToReturn(args)) : allRecords \in sorted(objects)}

\* The arrays next() can return on the records `objects`.
next(objects, args) ==
  {slice(allRecords, 0, numberToReturn(args)) : allRecords \in sorted(objects)}

\* (A slip: the return for a deleted record ends the loop.)
RECURSIVE forEachDeleteBreak(_, _, _, _)
forEachDeleteBreak(objects, records, i, failAt) ==
  IF i > Len(records) THEN [objects |-> objects, threw |-> FALSE]
  ELSE IF \A o \in objects : o.id # records[i]
    THEN [objects |-> objects, threw |-> FALSE]
  ELSE IF i = failAt THEN [objects |-> objects, threw |-> TRUE]
  ELSE forEachDeleteBreak({o \in objects : o.id # records[i]}, records,
                          i + 1, failAt)

\* (A slip: no isValid() test; database.delete() throws for a deleted record.)
RECURSIVE forEachDeleteUnchecked(_, _, _, _)
forEachDeleteUnchecked(objects, records, i, failAt) ==
  IF i > Len(records) THEN [objects |-> objects, threw |-> FALSE]
  ELSE IF i = failAt \/ \A o \in objects : o.id # records[i]
    THEN [objects |-> objects, threw |-> TRUE]
  ELSE forEachDeleteUnchecked({o \in objects : o.id # records[i]}, records,
                              i + 1, failAt)

\* records.forEach(...) from index i on: database.delete() throws for the
\* record at index failAt, if it is called for it.
RECURSIVE forEachDelete(_, _, _, _)
forEachDelete(objects, records, i, failAt) ==
  IF i > Len(records) THEN [objects |-> objects, threw |-> FALSE]
  ELSE IF ~isValid(objects, records[i])
    THEN forEachDelete(objects, records, i + 1, failAt)
  ELSE IF i = failAt THEN [objects |-> objects, threw |-> TRUE]
  ELSE forEachDelete({o \in objects : o.id # records[i]}, records,
                     i + 1, failAt)

\* (A slip: the records are deleted outside database.write().)
useWithoutWrite(objects, records, failAt) ==
  forEachDelete(objects, records, 1, failAt)

\* use(records) on the records `objects`.
use(objects, records, failAt) ==
  write(objects, forEachDelete(objects, records, 1, failAt))

(***************************************************************************)
(* The state after new SyncQueue(database), on a database with no 'SyncOut'*)
(* records.                                                                *)
(***************************************************************************)
Init ==
  /\ SyncOut = {}
  /\ inTransaction = FALSE
  /\ txSyncOut = {}
  /\ txCaptured = {}
  /\ listeners = {}
  /\ nextListenerId = 1
  /\ databaseListenerId = NoListener
  /\ now = 0
  /\ batch = << >>
  /\ last = Call("constructor", << >>, FALSE, {})

(***************************************************************************)
(* enable() and disable()                                                  *)
(***************************************************************************)
\* this.databaseListenerId = this.database.addListener(this.onDatabaseEvent)
enable ==
  /\ ~inTransaction
  /\ nextListenerId <= MaxListeners
  /\ listeners' = listeners \cup {nextListenerId}
  /\ databaseListenerId' = nextListenerId
  /\ nextListenerId' = nextListenerId + 1
  /\ last' = Call("enable", << >>, FALSE, {})
  /\ UNCHANGED << SyncOut, inTransaction, txSyncOut, txCaptured, now, batch >>

\* this.database.removeListener(this.databaseListenerId)
disable ==
  /\ ~inTransaction
  /\ listeners' = listeners \ {databaseListenerId}
  /\ last' = Call("disable", << >>, FALSE, {})
  /\ UNCHANGED << SyncOut, inTransaction, txSyncOut, txCaptured,
                  nextListenerId, databaseListenerId, now, batch >>

(***************************************************************************)
(* The application changing records: database.write(() => { ... })         *)
(***************************************************************************)
\* database.write() starts a transaction and calls its callback.
BeginWrite ==
  /\ ~inTransaction
  /\ inTransaction' = TRUE
  /\ last' = Call("write", << >>, FALSE, {})
  /\ UNCHANGED << SyncOut, txSyncOut, txCaptured, listeners, nextListenerId,
                  databaseListenerId, now, batch >>

\* The callback creates, updates or deletes a record, or wipes the database;
\* the database then calls every listener with the change. An error a listener
\* throws leaves the callback of write() and rolls the transaction back. (What
\* the database itself deletes in a wipe is its own business and not modelled:
\* the queue sees the wipe as one more change.)
Change(e, failure) ==
  /\ inTransaction
  /\ LET r == alertListeners(txSyncOut, Cardinality(listeners), e, now,
                             Ids(SyncOut) \cup Range(batch), failure)
     IN  /\ Cardinality(Ids(r.objects) \cup Ids(SyncOut) \cup Range(batch))
              <= MaxEntries
         /\ last' = Call("change", Triple(e), r.threw,
                         txSyncOut)
         /\ IF r.threw
              THEN /\ inTransaction' = FALSE
                   /\ txSyncOut' = SyncOut
                   /\ txCaptured' = {}
              ELSE /\ inTransaction' = TRUE
                   /\ txSyncOut' = r.objects
                   /\ txCaptured' =
                        IF listeners = {} \/ FilteredOut(e) THEN txCaptured
                        ELSE txCaptured \cup {Triple(e)}
  /\ UNCHANGED << SyncOut, listeners, nextListenerId, databaseListenerId,
                  now, batch >>

\* The callback returns: the transaction is committed. (The arguments kept in
\* `last` are the changes of the transaction that the queue has handled.)
Commit ==
  /\ inTransaction
  /\ SyncOut' = txSyncOut
  /\ inTransaction' = FALSE
  /\ txCaptured' = {}
  /\ last' = Call("commit", txCaptured, FALSE, {})
  /\ UNCHANGED << txSyncOut, listeners, nextListenerId, databaseListenerId,
                  now, batch >>

\* The callback throws for a reason of its own: the transaction is rolled back.
Cancel ==
  /\ inTransaction
  /\ txSyncOut' = SyncOut
  /\ inTransaction' = FALSE
  /\ txCaptured' = {}
  /\ last' = Call("cancel", << >>, TRUE, {})
  /\ UNCHANGED << SyncOut, listeners, nextListenerId, databaseListenerId,
                  now, batch >>

(***************************************************************************)
(* The sync client, between transactions.                                  *)
(***************************************************************************)
\* length(); what is kept in `last` as its arguments is the number it returns.
Length ==
  /\ ~inTransaction
  /\ last' = Call("length", << length(SyncOut) >>, FALSE, {})
  /\ UNCHANGED << SyncOut, inTransaction, txSyncOut, txCaptured, listeners,
                  nextListenerId, databaseListenerId, now, batch >>

Next_(args) ==
  /\ ~inTransaction
  /\ \E result \in next(SyncOut, args) : batch' = Refs(result)
  /\ last' = Call("next", args, FALSE, {})
  /\ UNCHANGED << SyncOut, inTransaction, txSyncOut, txCaptured, listeners,
                  nextListenerId, databaseListenerId, now >>

\* Arrays of records the sync client can hand to use(): records of the array
\* next() gave it, in any order, repeated or not, still stored or not.
Batches == UNION {[1..n -> Range(batch)] : n \in 0..MaxBatch}

\* use(records), where database.delete() throws for records[failAt] if it is
\* called for it (failAt = 0: no delete throws).
Use(records, failAt) ==
  /\ ~inTransaction
  /\ LET r == use(SyncOut, records, failAt)
     IN  /\ SyncOut' = r.objects
         /\ txSyncOut' = r.objects
         /\ last' = Call("use", << records, IF r.threw THEN failAt ELSE 0 >>,
                         r.threw, SyncOut)
  /\ UNCHANGED << inTransaction, txCaptured, listeners, nextListenerId,
                  databaseListenerId, now, batch >>

(***************************************************************************)
(* The wall clock. A transaction is one synchronous callback: the clock is *)
(* read as not changing while it runs.                                     *)
(***************************************************************************)
Tick ==
  /\ ~inTransaction
  /\ now < MaxTime
  /\ now' = now + 1
  /\ last' = Call("clock", << >>, FALSE, {})
  /\ UNCHANGED << SyncOut, inTransaction, txSyncOut, txCaptured, listeners,
                  nextListenerId, databaseListenerId, batch >>

\* The clock of the device is set back.
SetBack(time) ==
  /\ ~inTransaction
  /\ time < now
  /\ now' = time
  /\ last' = Call("clock", << >>, FALSE, {})
  /\ UNCHANGED << SyncOut, inTransaction, txSyncOut, txCaptured, listeners,
                  nextListenerId, databaseListenerId, batch >>

Next ==
  \/ enable
  \/ disable
  \/ BeginWrite
  \/ \E e \in Events, failure \in Failures : Change(e, failure)
  \/ Commit
  \/ Cancel
  \/ Length
  \/ \E args \in NextArgs : Next_(args)
  \/ \E records \in Batches :
       \E failAt \in 0..Len(records) : Use(records, failAt)
  \/ Tick
  \/ \E time \in 0..MaxTime : SetBack(time)

Spec == Init /\ [][Next]_vars

\* The queue on a device whose clock is never set back.
NextMonotonic ==
  \/ enable
  \/ disable
  \/ BeginWrite
  \/ \E e \in Events, failure \in Failures : Change(e, failure)
  \/ Commit
  \/ Cancel
  \/ Length
  \/ \E args \in NextArgs : Next_(args)
  \/ \E records \in Batches :
       \E failAt \in 0..Len(records) : Use(records, failAt)
  \/ Tick

SpecMonotonic == Init /\ [][NextMonotonic]_vars

(***************************************************************************)
(* The sync client emptying the queue of a database that is not changed:   *)
(* it calls next(k), then use() with the array it got, and so on.          *)
(***************************************************************************)
\* The 'SyncOut' records a database can hold: of changes the queue queues, at
\* most MaxEntries, no two with one id or with one (changeType, recordType,
\* recordId).
Outboxes ==
  LET records == {newSyncOut(id, time, e.changeType, e.recordType, e.record.id) :
                    id \in 1..MaxEntries, time \in 0..MaxTime, e \in SyncedEvents}
  IN  {objects \in SUBSET records :
         /\ Cardinality(objects) <= MaxEntries
         /\ \A a, b \in objects :
              (a.id = b.id
                 \/ << a.changeType, a.recordType, a.recordId >>
                      = << b.changeType, b.recordType, b.recordId >>) => a = b}

\* new SyncQueue(database) on a database that holds 'SyncOut' records.
InitDrain ==
  /\ SyncOut \in Outboxes
  /\ inTransaction = FALSE
  /\ txSyncOut = SyncOut
  /\ txCaptured = {}
  /\ listeners = {}
  /\ nextListenerId = 1
  /\ databaseListenerId = NoListener
  /\ now = 0
  /\ batch = << >>
  /\ last = Call("constructor", << >>, FALSE, {})

\* The sync client asks for the next k records.
DrainNext(k) ==
  /\ last.op # "next"
  /\ Next_(<< k >>)

\* The sync client has sent the records and marks them as used.
DrainUse ==
  /\ last.op = "next"
  /\ Use(batch, 0)

NextDrain ==
  \/ \E k \in 1..(MaxEntries + 1) : DrainNext(k)
  \/ DrainUse

SpecDrain == InitDrain /\ [][NextDrain]_vars /\ WF_vars(NextDrain)

(***************************************************************************)
(* Properties.                                                             *)
(***************************************************************************)
\* The (changeType, recordType, recordId) of a 'SyncOut' record.
Key(o) == << o.changeType, o.recordType, o.recordId >>

\* The last call was a change the database called at least one listener for,
\* and no listener threw.
Handled ==
  /\ last.op = "change"
  /\ ~last.threw
  /\ listeners # {}

\* C1. Dedup invariant: starting from no 'SyncOut' record, after any sequence
\* of enable(), disable(), changes, next() and use(), there is at most one
\* 'SyncOut' record for each (changeType, recordType, recordId), among the
\* committed records and among the records a running transaction sees.
C1_DedupInvariant ==
  \A objects \in {SyncOut, txSyncOut} :
    \A a, b \in objects : Key(a) = Key(b) => a = b

\* A change was handled whose (changeType, recordType, recordId) already had
\* a committed record, beside a record with another key.
C1_Witness ==
  /\ Handled
  /\ \E o \in SyncOut : Key(o) = last.args
  /\ \E o \in txSyncOut : Key(o) # last.args

\* C2. Whitelist invariant: every 'SyncOut' record has a recordType of
\* recordTypesSynced, a changeType among CREATE, UPDATE and DELETE, and a
\* recordId that is not empty.
C2_WhitelistInvariant ==
  \A o \in SyncOut \cup txSyncOut :
    /\ o.recordType \in Range(recordTypesSynced)
    /\ o.changeType \in {CREATE, UPDATE, DELETE}
    /\ o.recordId \notin {"", NoId}

\* A change of a record type that is not synced was handled while a record
\* was queued.
C2_Witness ==
  /\ Handled
  /\ last.args[2] \notin Range(recordTypesSynced)
  /\ txSyncOut # {}

\* The last change was the creation of a record with an id, of a synced type.
CreatedSynced ==
  /\ last.args[1] = CREATE
  /\ last.args[2] \in Range(recordTypesSynced)
  /\ last.args[3] \notin {"", NoId}

\* The last change left one record more, and the new record is of the change.
OneMore ==
  /\ length(txSyncOut) = length(last.before) + 1
  /\ last.before \subseteq txSyncOut
  /\ \A o \in txSyncOut \ last.before : Key(o) = last.args

\* C3, as claimed. The creation of a record with an id, of any synced type,
\* handled while the queue is enabled, increases length() by exactly 1, and
\* the new 'SyncOut' record carries the recordType, recordId and changeType of
\* the change.
C3_CreateAddsOne == (Handled /\ CreatedSynced) => OneMore

\* C3, amended. The same, for a creation that finds no 'SyncOut' record with
\* its (changeType, recordType, recordId).
C3_NewCreateAddsOne ==
  (Handled /\ CreatedSynced /\ \A o \in last.before : Key(o) # last.args)
    => OneMore

\* The creation of a record of the last synced type added a record to a queue
\* that held one already.
C3_Witness ==
  /\ Handled
  /\ CreatedSynced
  /\ last.args[2] = "TransactionLine"
  /\ last.before # {}
  /\ length(txSyncOut) = length(last.before) + 1

\* C4. Filtered-out events leave the queue unchanged: a change of a record type
\* that is not synced, a change that is no CREATE, UPDATE or DELETE, and a
\* change of a record with an empty or no id leave the 'SyncOut' records as
\* the listeners found them, and no listener throws.
C4_FilteredOutUnchanged ==
  ( /\ last.op = "change"
    /\ listeners # {}
    /\ \/ last.args[2] \notin Range(recordTypesSynced)
       \/ last.args[1] \notin {CREATE, UPDATE, DELETE}
       \/ last.args[3] \in {"", NoId} )
    => (~last.threw /\ txSyncOut = last.before)

\* A wipe was handled while a record was queued.
C4_Witness ==
  /\ Handled
  /\ last.args[1] = WIPE
  /\ last.before # {}

\* C5. A dedup hit is a no-op: a change that finds a 'SyncOut' record with its
\* (changeType, recordType, recordId) leaves the 'SyncOut' records as they
\* were, with their ids and changeTimes.
C5_DedupHitUnchanged ==
  (Handled /\ \E o \in last.before : Key(o) = last.args)
    => txSyncOut = last.before

\* A change was handled that found a committed record with its key, queued at
\* another time than now.
C5_Witness ==
  /\ Handled
  /\ \E o \in SyncOut \cap last.before :
       Key(o) = last.args /\ o.changeTime # now

\* C6. For every n >= 1, next(n) returns min(n, length()) records, in
\* ascending changeTime, and no record left out has a changeTime smaller than
\* one returned; next() does what next(1) does.
C6_NextOldestFirst ==
  last.op = "next" =>
    LET n == IF last.args = << >> THEN 1 ELSE last.args[1]
        returned == {Stored(SyncOut, batch[i]) : i \in 1..Len(batch)}
    IN  n >= 1 =>
          /\ \A i \in 1..Len(batch) : isValid(SyncOut, batch[i])
          /\ \A i, j \in 1..Len(batch) : i # j => batch[i] # batch[j]
          /\ Len(batch) = Min(n, length(SyncOut))
          /\ \A i, j \in 1..Len(batch) :
               i < j => Stored(SyncOut, batch[i]).changeTime
                          <= Stored(SyncOut, batch[j]).changeTime
          /\ \A o \in SyncOut \ returned :
               \A r \in returned : ~(o.changeTime < r.changeTime)

\* next(1) returned the older of two records, which was queued last.
C6_Witness ==
  /\ last.op = "next"
  /\ last.args = << 1 >>
  /\ Len(batch) = 1
  /\ \E o \in SyncOut :
       /\ o.id < batch[1]
       /\ Stored(SyncOut, batch[1]).changeTime < o.changeTime

\* C7. use(records) removes the records of the array that are still stored and
\* nothing else: the other records are kept as they are, length() decreases by
\* the number of distinct records of the array that were stored, and records
\* already removed or listed twice raise no error (use() throws only when
\* database.delete() throws for a stored record).
C7_UseRemovesExactly ==
  last.op = "use" =>
    LET records == last.args[1]
        failAt == last.args[2]
    IN  IF last.threw
          THEN /\ failAt \in 1..Len(records)
               /\ isValid(last.before, records[failAt])
          ELSE /\ SyncOut = {o \in last.before : o.id \notin Range(records)}
               /\ length(last.before) - length(SyncOut)
                    = Cardinality(Range(records) \cap Ids(last.before))

\* use() was given one stored record twice, and has kept another record.
C7_Witness ==
  /\ last.op = "use"
  /\ ~last.threw
  /\ Len(last.args[1]) = 2
  /\ last.args[1][1] = last.args[1][2]
  /\ isValid(last.before, last.args[1][1])
  /\ SyncOut # {}

\* C8. use() can be repeated: use(X) and then use(Y) leave the records that
\* were stored before, less those of X and of Y; use(X) and then use(X) leave
\* what the first use(X) left.
C8_UseIdempotent ==
  [][ ( /\ last.op = "use" /\ ~last.threw
        /\ last'.op = "use" /\ ~last'.threw )
      => /\ SyncOut' = {o \in last.before :
                          o.id \notin Range(last.args[1])
                                        \cup Range(last'.args[1])}
         /\ last'.args[1] = last.args[1] => SyncOut' = SyncOut ]_vars

\* use() was given records that were all removed before, and one was kept.
C8_Witness ==
  /\ last.op = "use"
  /\ ~last.threw
  /\ last.args[1] # << >>
  /\ \A i \in 1..Len(last.args[1]) : ~isValid(last.before, last.args[1][i])
  /\ SyncOut # {}

\* C9. use() is all or nothing: when database.delete() throws for a record of
\* the array, use() throws and the 'SyncOut' records are those of before the
\* call.
C9_UseAllOrNothing ==
  (last.op = "use" /\ last.threw) => SyncOut = last.before

\* database.delete() threw for the second of two stored records.
C9_Witness ==
  /\ last.op = "use"
  /\ last.threw
  /\ last.args[2] = 2
  /\ last.args[1][1] # last.args[1][2]
  /\ isValid(last.before, last.args[1][1])
  /\ SyncOut = last.before

\* C10. A change and its 'SyncOut' record are committed together or not at
\* all: a transaction ends either committed, and then every change of it that
\* the queue handled and did not filter out has a committed 'SyncOut' record
\* with its (changeType, recordType, recordId), or rolled back, and then the
\* committed 'SyncOut' records are those of before the transaction; a listener
\* that throws ends the transaction rolled back.
C10_AtomicUnit ==
  [][ /\ (inTransaction /\ ~inTransaction')
        => \/ /\ last'.op = "commit"
              /\ \A t \in txCaptured : \E o \in SyncOut' : Key(o) = t
           \/ /\ last'.threw
              /\ SyncOut' = SyncOut
      /\ (last'.op = "change" /\ last'.threw)
        => (~inTransaction' /\ SyncOut' = SyncOut /\ txSyncOut' = SyncOut) ]_vars

\* A listener threw in a transaction that had queued a record, which is gone.
C10_Witness ==
  /\ last.op = "change"
  /\ last.threw
  /\ ~inTransaction
  /\ last.before # SyncOut
  /\ txSyncOut = SyncOut

\* The queue is enabled: the last of the enable() and disable() calls was an
\* enable(). (enable() stores the id it has just registered, disable() removes
\* the stored id from the registered ones, and ids are not given twice.)
Enabled == databaseListenerId \in listeners

\* C11. Changes are queued only while the queue is enabled: before the first
\* enable(), and after a disable() until the next enable(), a change leaves
\* the 'SyncOut' records as they were, whatever enable() and disable() calls
\* came before.
C11_CapturedOnlyEnabled ==
  (last.op = "change" /\ ~Enabled) => txSyncOut = last.before

\* C12. A 'SyncOut' record is never changed and is removed only by use(): a
\* committed record is committed after every step as it was, unless the step
\* is a use() of an array that holds it, and a change the listeners return
\* from leaves every record of the transaction as it was.
C12_Lifecycle ==
  [][ /\ \A o \in SyncOut :
           \/ o \in SyncOut'
           \/ /\ last'.op = "use"
              /\ o.id \in Range(last'.args[1])
              /\ \A p \in SyncOut' : p.id # o.id
      /\ (last'.op = "change" /\ ~last'.threw) => txSyncOut \subseteq txSyncOut'
    ]_vars

\* A transaction was committed that queued a record, and a record queued at
\* an earlier time is still there.
C12_Witness ==
  /\ last.op = "commit"
  /\ \E o, p \in SyncOut : o.changeTime < now /\ p.changeTime = now

\* The 'SyncOut' records of `objects` for the record of the last change.
OfRecord(objects) ==
  {o \in objects : o.recordType = last.args[2] /\ o.recordId = last.args[3]}

\* C13. Records of different change types for one record are queued side by
\* side: a supported change of a record of a synced type, with an id, that
\* finds 'SyncOut' records of other change types for its record leaves them as
\* they are, and leaves exactly one 'SyncOut' record per change type queued
\* for the record, its own included.
C13_ChangeTypesCoexist ==
  ( /\ Handled
    /\ last.args[1] \in {CREATE, UPDATE, DELETE}
    /\ last.args[2] \in Range(recordTypesSynced)
    /\ last.args[3] \notin {"", NoId}
    /\ \E o \in OfRecord(last.before) : o.changeType # last.args[1] )
    => /\ last.before \subseteq txSyncOut
       /\ {o.changeType : o \in OfRecord(txSyncOut)}
            = {o.changeType : o \in OfRecord(last.before)} \cup {last.args[1]}
       /\ \A a, b \in OfRecord(txSyncOut) : a.changeType = b.changeType => a = b

\* The update of a record was queued next to its creation: length() is 2.
C13_Witness ==
  /\ Handled
  /\ last.args = << UPDATE, "ItemLine", "t1" >>
  /\ {o.changeType : o \in last.before} = {CREATE}
  /\ {o.changeType : o \in txSyncOut} = {CREATE, UPDATE}
  /\ length(txSyncOut) = 2

\* C14. With a clock that is never set back, changeTime follows the order of
\* the commits: no 'SyncOut' record is of a later time than now, and a record
\* that a transaction commits is of no earlier time than any record committed
\* before it, so that next() returns it after them or its time is theirs.
C14_ChangeTimeFollowsCommit ==
  [][ /\ \A o \in SyncOut \cup txSyncOut : o.changeTime <= now
      /\ \A o \in SyncOut : \A p \in SyncOut' \ SyncOut :
           o.changeTime <= p.changeTime
      /\ last'.op = "next" =>
           \A i, j \in 1..Len(batch') :
             Stored(SyncOut, batch'[i]).changeTime
               < Stored(SyncOut, batch'[j]).changeTime => i < j
    ]_vars

\* next() has returned two records committed at different times, the one
\* committed first in front.
C14_Witness ==
  /\ last.op = "next"
  /\ Len(batch) = 2
  /\ isValid(SyncOut, batch[1])
  /\ isValid(SyncOut, batch[2])
  /\ Stored(SyncOut, batch[1]).changeTime < Stored(SyncOut, batch[2]).changeTime

\* C15. No committed change is lost to the sync client: a use() of the array
\* that next() returned before a transaction was committed does not leave a
\* change of that transaction, handled while the queue was enabled, without a
\* 'SyncOut' record (no next() has returned a record for it since its commit,
\* and without a record none will).
C15_CommittedStaysQueued ==
  [][ ( /\ last.op = "commit"
        /\ Enabled
        /\ last'.op = "use"
        /\ ~last'.threw
        /\ last'.args[1] = batch )
      => \A t \in last.args : \E o \in SyncOut' : Key(o) = t ]_vars

\* C16. length() and next() only read: they leave the committed 'SyncOut'
\* records, those of a transaction, the registered listeners and
\* this.databaseListenerId as they are, and length() returns the number of
\* 'SyncOut' records stored when it is called.
C16_ReadOnly ==
  [][ last'.op \in {"length", "next"} =>
        /\ SyncOut' = SyncOut
        /\ txSyncOut' = txSyncOut
        /\ inTransaction' = inTransaction
        /\ listeners' = listeners
        /\ databaseListenerId' = databaseListenerId
        /\ last'.op = "length" => last'.args = << Cardinality(SyncOut) >>
    ]_vars

\* length() has returned 2 on an enabled queue.
C16_Witness ==
  /\ last.op = "length"
  /\ last.args = << 2 >>
  /\ Enabled
  /\ Cardinality(SyncOut) = 2

\* C17. First changed, first out: a use() of the array the last next()
\* returned removes no 'SyncOut' record while a record of a strictly smaller
\* changeTime stays queued.
C17_FirstChangedFirstOut ==
  [][ (last'.op = "use" /\ ~last'.threw /\ last'.args[1] = batch) =>
        \A o \in SyncOut \ SyncOut' : \A p \in SyncOut' :
          ~(p.changeTime < o.changeTime) ]_vars

\* The last change is one the queue has to queue: a supported change of a
\* record of a synced type, with an id.
Queueable ==
  /\ last.args[1] \in {CREATE, UPDATE, DELETE}
  /\ last.args[2] \in Range(recordTypesSynced)
  /\ last.args[3] \notin {"", NoId}

\* C18. When the handler returns from a supported change of a record of a
\* synced type, with an id, there is exactly one 'SyncOut' record with the
\* changeType, recordType and recordId of the change, queued now or before.
C18_CapturePostcondition ==
  (Handled /\ Queueable)
    => Cardinality({o \in txSyncOut : Key(o) = last.args}) = 1

\* The handler, registered twice, was called twice for a change, and has
\* queued one record for it.
C18_Witness ==
  /\ Handled
  /\ Queueable
  /\ Cardinality(listeners) = 2
  /\ \A o \in last.before : Key(o) # last.args
  /\ Cardinality({o \in txSyncOut : Key(o) = last.args}) = 1

\* C19. Only stored records count as duplicates: a change to queue that finds
\* no 'SyncOut' record with its changeType, recordType and recordId (the one
\* there was has been removed by use()) is queued as one new record, with the
\* time of now and an id that no stored record and no record the sync client
\* still holds has, and length() is one more.
C19_QueuedAgainAfterUse ==
  (Handled /\ Queueable /\ \A o \in last.before : Key(o) # last.args)
    => /\ length(txSyncOut) = length(last.before) + 1
       /\ \E o \in txSyncOut \ last.before :
            /\ Key(o) = last.args
            /\ o.changeTime = now
            /\ o.id \notin Ids(last.before) \cup Ids(SyncOut) \cup Range(batch)

\* A record that next() returned at time 0 was removed by use(); a change at
\* time 1 that found nothing queued was queued with another id than the
\* removed record had.
C19_Witness ==
  /\ Handled
  /\ Queueable
  /\ now = 1
  /\ last.before = {}
  /\ Len(batch) = 1
  /\ \E o \in txSyncOut :
       Key(o) = last.args /\ o.changeTime = 1 /\ o.id # batch[1]

\* C20. Emptying the queue ends: when no change is queued any more and the
\* sync client calls next(k), k >= 1, and use() with the array it got, again
\* and again, the queue gets empty and stays empty; every use() leaves
\* min(k, length()) records less, and next(k) on an empty queue returns an
\* empty array.
C20_DrainTerminates ==
  /\ <>[](length(SyncOut) = 0)
  /\ [][ (last.op = "next" /\ last'.op = "use") =>
           /\ ~last'.threw
           /\ length(SyncOut')
                = length(SyncOut) - Min(last.args[1], length(SyncOut)) ]_vars
  /\ [][ (last'.op = "next" /\ length(SyncOut) = 0) => batch' = << >> ]_vars

\* The sync client has emptied a queue of two records with one use().
C20_Witness ==
  /\ last.op = "use"
  /\ length(last.before) = 2
  /\ Len(last.args[1]) = 2
  /\ length(SyncOut) = 0

\* Every 'SyncOut' store the queue builds is one of those SpecDrain starts
\* from.
OutboxesCoverSyncOut == SyncOut \in Outboxes

====
